---- MODULE Spec2Model ----
(***************************************************************************)
(* sci-rs: axis resolution (sci-rs/src/signal/filter/arraytools.rs) and   *)
(* one-dimensional convolution (sci-rs-core/src/num_rs/convolve/mod.rs).  *)
(*                                                                         *)
(* Three specifications share the variables:                               *)
(*   SpecAxis  a caller resolves one (axis, rank) pair with both resolvers *)
(*   SpecConv  a caller convolves a signal with a kernel, one call at a    *)
(*             time, through either entry point                            *)
(*   SpecProc  a caller keeps one FFT processor across many calls          *)
(***************************************************************************)
EXTENDS Integers, Sequences, FiniteSets, TLC

VARIABLES axis, rank, retSt, retDyn,
          a, v, mode, op, ret, backendLog,
          proc, prevLonger, retFresh

\* axis, rank      the resolvers' arguments: Option<isize> and the array's rank
\* retSt, retDyn   what check_and_get_axis_st / _dyn returned for them
\* a, v, mode      the arguments of the last convolution call
\* op              the entry point called: "convolve", "convolve_scratchf64"
\* ret             what the call returned
\* backendLog      what the backend answered to each invocation the call made
\* proc            the FFT processor the caller keeps: plan and scratch buffer
\* prevLonger      the buffer left by earlier calls was longer than this call's
\* retFresh        what the last call returns on a processor fresh from the factory
axisVars == <<axis, rank, retSt, retDyn>>
convVars == <<a, v, mode, op, ret, backendLog>>
procVars == <<proc, prevLonger, retFresh>>
vars == <<axisVars, convVars, procVars>>

(***************************************************************************)
(* Bounds                                                                  *)
(***************************************************************************)
\* width of isize / usize in the model (the build's is the pointer width)
IsizeBits == 4
\* largest array rank N the caller builds
MaxRank == 6
\* longest signal (and so longest kernel) in SpecConv
MaxLen == 3
\* longest signal in SpecProc
ProcMaxLen == 2

IsizeMin == -(2 ^ (IsizeBits - 1))
IsizeMax == 2 ^ (IsizeBits - 1) - 1
UsizeMax == 2 ^ IsizeBits - 1

(***************************************************************************)
(* Values                                                                  *)
(***************************************************************************)
\* Option<isize> / Option<usize>
None == [some |-> FALSE, v |-> 0]
Some(x) == [some |-> TRUE, v |-> x]

NoError == [kind |-> "", arg |-> "", reason |-> ""]
\* the unit error of core::result::Result<usize, ()>
UnitError == [kind |-> "()", arg |-> "", reason |-> ""]

\* outcomes of a call that returns Result<usize, _>: Ok, Err, or a panic
NotCalled == [tag |-> "NotCalled", val |-> 0, err |-> NoError]
OkIdx(i) == [tag |-> "Ok", val |-> i, err |-> NoError]
ErrIdx(e) == [tag |-> "Err", val |-> 0, err |-> e]
PanicIdx(msg) == [tag |-> "Panic", val |-> 0, err |-> [kind |-> "panic", arg |-> "", reason |-> msg]]

(***************************************************************************)
(* arraytools.rs                                                           *)
(***************************************************************************)
\* isize::unsigned_abs
unsigned_abs(x) == IF x < 0 THEN -x ELSE x

\* usize::checked_add_signed: None when the sum leaves 0..usize::MAX
checked_add_signed(n, x) ==
    IF n + x < 0 \/ n + x > UsizeMax THEN None ELSE Some(n + x)

\* the expect() on the checked sum: its message is the panic message (the
\* source writes the word axis between backquotes, which a string here cannot hold)
AddPanicMessage == "Invalid add to axis option"

expect_add(r) ==
    IF r.some THEN OkIdx(r.v) ELSE PanicIdx(AddPanicMessage)

StRejectsOffByOne(ax, N) ==
    /\ ax.some
    /\ IF ax.v < 0 THEN unsigned_abs(ax.v) > N ELSE unsigned_abs(ax.v) > N

\* check_and_get_axis_st, the validating match: TRUE when it returns Err(())
StRejects(ax, N) ==
    /\ ax.some
    /\ IF ax.v < 0 THEN unsigned_abs(ax.v) > N ELSE unsigned_abs(ax.v) >= N

DynRejectsStrict(ax, ndim) ==
    /\ ax.some
    /\ ~(IF ax.v < 0 THEN unsigned_abs(ax.v) < ndim ELSE unsigned_abs(ax.v) < ndim)

\* check_and_get_axis_dyn, the closure of is_some_and: TRUE when it returns Err
DynRejects(ax, ndim) ==
    /\ ax.some
    /\ ~(IF ax.v < 0 THEN unsigned_abs(ax.v) <= ndim ELSE unsigned_abs(ax.v) < ndim)

\* the conversion both resolvers end with
StConvert(ax, N) ==
    LET axis_inner == IF ax.some THEN ax.v ELSE -1
    IN  IF axis_inner >= 0
        THEN OkIdx(unsigned_abs(axis_inner))
        ELSE expect_add(checked_add_signed(N, axis_inner))

DynConvert(ax, ndim) ==
    LET axis_inner == IF ax.some THEN ax.v ELSE -1
    IN  IF axis_inner >= 0
        THEN OkIdx(unsigned_abs(axis_inner))
        ELSE expect_add(checked_add_signed(ndim, axis_inner))

check_and_get_axis_st(ax, N) ==
    IF StRejects(ax, N) THEN ErrIdx(UnitError) ELSE StConvert(ax, N)

\* Error::InvalidArg { arg: "axis", reason: "index out of range." }
DynError == [kind |-> "InvalidArg", arg |-> "axis", reason |-> "index out of range."]

check_and_get_axis_dyn(ax, ndim) ==
    IF DynRejects(ax, ndim) THEN ErrIdx(DynError) ELSE DynConvert(ax, ndim)

\* the axis specs a caller can pass: None, or any isize
AxisSpecs == {None} \cup {Some(x) : x \in IsizeMin..IsizeMax}
Ranks == 0..MaxRank
(***************************************************************************)
(* The convolution backend (crate ndarray_conv).  Its source is not part   *)
(* of the repository: it is modelled from the specification (zero padding  *)
(* per mode, multiply-accumulate over the padded input, a frequency-domain *)
(* variant that works in the processor's scratch buffer).  Elements are    *)
(* exact integers; the documented example with kernel [0, 1, 0.5] is held  *)
(* with the kernel in units of 1/2, so its results are in units of 1/2.    *)
(***************************************************************************)
Elems == {0, 1}
DocA == <<1, 2, 3>>
\* [0, 1, 0.5] in units of 1/2
DocV == <<0, 2, 1>>

Zeros(n) == [i \in 1..n |-> 0]

\* ConvMode -> explicit padding <<left, right>> for a kernel of length k
unfold(cm, k) ==
    CASE cm = "ConvMode::Full" -> <<k - 1, k - 1>>
      [] cm = "ConvMode::Same" ->
            IF k % 2 = 0 THEN <<(k - 1) \div 2 + 1, (k - 1) \div 2>>
                         ELSE <<(k - 1) \div 2, (k - 1) \div 2>>
      [] cm = "ConvMode::Valid" -> <<0, 0>>

\* PaddingMode::Zeros
PadZeros(s, pad) == Zeros(pad[1]) \o s \o Zeros(pad[2])

\* one output element: the kernel, flipped, multiplied into the window at j
MulAcc(p, w, j) ==
    LET k == Len(w)
        S[i \in 0..k] == IF i = 0 THEN 0 ELSE S[i - 1] + p[j + i - 1] * w[k - i + 1]
    IN  S[k]

\* the direct backend on valid shapes
conv_direct(data, kernel, cm) ==
    LET p == PadZeros(data, unfold(cm, Len(kernel)))
        n == Len(p) - Len(kernel) + 1
    IN  [j \in 1..n |-> MulAcc(p, kernel, j)]

\* what one backend invocation returns: Result<Array1, ndarray_conv::Error>
BackendOk(s) == [ok |-> TRUE, val |-> s, err |-> ""]
BackendErr(e) == [ok |-> FALSE, val |-> <<>>, err |-> e]

\* The failures the backend reports are its own business: any invocation may
\* fail, with one of its error values (named here by their rendering).
BackendErrors == {"incompatible shapes", "invalid data shape"}
Outcomes == {"ok"} \cup BackendErrors

\* ConvExt::conv with PaddingMode::Zeros; o is what this invocation answers
conv(data, kernel, cm, o) ==
    IF o = "ok" THEN BackendOk(conv_direct(data, kernel, cm)) ELSE BackendErr(o)

\* the processor a factory call returns: no plan, empty scratch buffer
FreshProc == [plan |-> 0, scratch |-> <<>>]

FillBufferStale(scratch, data, pad) ==
    LET L == Len(data) + pad[1] + pad[2]
    IN  [i \in 1..L |->
            IF i <= pad[1] THEN 0
            ELSE IF i <= pad[1] + Len(data) THEN data[i - pad[1]]
            ELSE IF i <= Len(scratch) THEN scratch[i] ELSE 0]

\* the scratch buffer, resized and overwritten with the zero-padded signal
FillBuffer(scratch, data, pad) == PadZeros(data, pad)

\* the product of the two transforms, transformed back: the circular
\* convolution of the buffer with the kernel (zero-extended to length L)
Circular(buf, kernel) ==
    LET L == Len(buf)
        k == Len(kernel)
        ker(i) == IF i < k THEN kernel[i + 1] ELSE 0
        S[n \in 0..(L - 1), m \in 0..L] ==
            IF m = 0 THEN 0 ELSE S[n, m - 1] + buf[m] * ker((n - (m - 1)) % L)
    IN  [n \in 1..L |-> S[n - 1, L]]

\* ConvFFTExt::conv_fft_with_processor with PaddingMode::Zeros.  Returns the
\* invocation's answer and the processor as the call leaves it.
conv_fft_with_processor(data, kernel, cm, p, o) ==
    LET k == Len(kernel)
        buf == FillBuffer(p.scratch, data, unfold(cm, k))
        C == Circular(buf, kernel)
        out == [j \in 1..(Len(buf) - k + 1) |-> C[j + k - 1]]
    IN  IF o = "ok"
        THEN [res |-> BackendOk(out), proc |-> [plan |-> Len(buf), scratch |-> C]]
        ELSE [res |-> BackendErr(o), proc |-> p]

(***************************************************************************)
(* convolve/mod.rs and convolve/ndarray_conv_binds.rs                      *)
(***************************************************************************)
ConvolveModes == {"ConvolveMode::Full", "ConvolveMode::Valid", "ConvolveMode::Same"}

ConvModeFromSwapped(m) ==
    CASE m = "ConvolveMode::Full" -> "ConvMode::Full"
      [] m = "ConvolveMode::Same" -> "ConvMode::Valid"
      [] m = "ConvolveMode::Valid" -> "ConvMode::Same"

\* impl From<ConvolveMode> for ConvMode<N>
ConvModeFrom(m) ==
    CASE m = "ConvolveMode::Full" -> "ConvMode::Full"
      [] m = "ConvolveMode::Same" -> "ConvMode::Same"
      [] m = "ConvolveMode::Valid" -> "ConvMode::Valid"

\* Result<Array1<T>>: Ok(sequence) or Err(Error)
NoRet == [tag |-> "NotCalled", val |-> <<>>, err |-> NoError]
OkSeq(s) == [tag |-> "Ok", val |-> s, err |-> NoError]
ErrSeq(e) == [tag |-> "Err", val |-> <<>>, err |-> e]

\* result.map_err(|e| Error::Conv { reason: e.to_string() })   (feature alloc,
\* the only build that has the convolve module)
map_err(r) ==
    IF r.ok THEN OkSeq(r.val)
            ELSE ErrSeq([kind |-> "Conv", arg |-> "", reason |-> r.err])

convolve_swapped(a_, v_, m, outcomes) ==
    LET result == conv(v_, a_, ConvModeFrom(m), outcomes[1])
    IN  [ret |-> map_err(result), log |-> <<result>>]

\* convolve: one backend invocation, its error mapped.  outcomes[i] is what the
\* backend answers to the i-th invocation; log lists the answers it gave.
convolve(a_, v_, m, outcomes) ==
    LET result == conv(a_, v_, ConvModeFrom(m), outcomes[1])
    IN  [ret |-> map_err(result), log |-> <<result>>]

convolve_scratchf64_retry(a_, v_, m, p, outcomes) ==
    LET first == conv_fft_with_processor(a_, v_, ConvModeFrom(m), p, outcomes[1])
        second == conv_fft_with_processor(a_, v_, ConvModeFrom(m), first.proc, outcomes[2])
    IN  IF first.res.ok
        THEN [ret |-> map_err(first.res), log |-> <<first.res>>, proc |-> first.proc]
        ELSE [ret |-> map_err(second.res), log |-> <<first.res, second.res>>,
              proc |-> second.proc]

\* convolve_scratchf64: the same through the frequency-domain backend, which
\* works in (and changes) the caller's processor
convolve_scratchf64(a_, v_, m, p, outcomes) ==
    LET r == conv_fft_with_processor(a_, v_, ConvModeFrom(m), p, outcomes[1])
    IN  [ret |-> map_err(r.res), log |-> <<r.res>>, proc |-> r.proc]

(***************************************************************************)
(* Inputs                                                                  *)
(***************************************************************************)
SeqsUpTo(n) == UNION {[1..l -> Elems] : l \in 1..n}
Signals == SeqsUpTo(MaxLen) \cup {DocA}
Kernels == SeqsUpTo(MaxLen) \cup {DocV}
ProcSignals == SeqsUpTo(ProcMaxLen)
OutcomeSeqs == [1..2 -> Outcomes]

(***************************************************************************)
(* State machine                                                           *)
(***************************************************************************)
Init ==
    /\ axis = None /\ rank = 0 /\ retSt = NotCalled /\ retDyn = NotCalled
    /\ a = <<>> /\ v = <<>> /\ mode = "" /\ op = "none" /\ ret = NoRet
    /\ backendLog = <<>>
    /\ proc = FreshProc /\ prevLonger = FALSE /\ retFresh = NoRet

\* the caller has an array of rank n and an axis spec
PickAxis(ax, n) ==
    /\ axis' = ax /\ rank' = n
    /\ retSt' = NotCalled /\ retDyn' = NotCalled
    /\ UNCHANGED <<convVars, procVars>>

CallSt ==
    /\ retSt.tag = "NotCalled"
    /\ retSt' = check_and_get_axis_st(axis, rank)
    /\ UNCHANGED <<axis, rank, retDyn, convVars, procVars>>

CallDyn ==
    /\ retDyn.tag = "NotCalled"
    /\ retDyn' = check_and_get_axis_dyn(axis, rank)
    /\ UNCHANGED <<axis, rank, retSt, convVars, procVars>>

NextAxis ==
    \/ \E ax \in AxisSpecs, n \in Ranks : PickAxis(ax, n)
    \/ CallSt
    \/ CallDyn

SpecAxis == Init /\ [][NextAxis]_vars

\* the caller holds a signal
ChooseSignal(s) ==
    /\ a' = s /\ v' = <<>> /\ mode' = "" /\ op' = "none" /\ ret' = NoRet
    /\ backendLog' = <<>>
    /\ UNCHANGED <<axisVars, procVars>>

\* and a kernel no longer than it (the documented precondition)
ChooseKernel(k) ==
    /\ Len(a) >= 1 /\ Len(k) <= Len(a)
    /\ v' = k /\ mode' = "" /\ op' = "none" /\ ret' = NoRet
    /\ backendLog' = <<>>
    /\ UNCHANGED <<a, axisVars, procVars>>

Convolve(m, outcomes) ==
    /\ Len(v) >= 1
    /\ LET r == convolve(a, v, m, outcomes)
       IN  ret' = r.ret /\ backendLog' = r.log
    /\ mode' = m /\ op' = "convolve"
    /\ UNCHANGED <<a, v, axisVars, procVars>>

\* as the tests do: a processor from the factory, used for this one call
ConvolveScratchFresh(m, outcomes) ==
    /\ Len(v) >= 1
    /\ LET r == convolve_scratchf64(a, v, m, FreshProc, outcomes)
       IN  ret' = r.ret /\ backendLog' = r.log
    /\ mode' = m /\ op' = "convolve_scratchf64"
    /\ UNCHANGED <<a, v, axisVars, procVars>>

NextConv ==
    \/ \E s \in Signals : ChooseSignal(s)
    \/ \E k \in Kernels : ChooseKernel(k)
    \/ \E m \in ConvolveModes, o \in OutcomeSeqs : Convolve(m, o)
    \/ \E m \in ConvolveModes, o \in OutcomeSeqs : ConvolveScratchFresh(m, o)

SpecConv == Init /\ [][NextConv]_vars

\* prelude::get_fft_processor: the caller replaces its processor by a new one
GetFftProcessor ==
    /\ proc # FreshProc
    /\ proc' = FreshProc
    /\ UNCHANGED <<prevLonger, retFresh, axisVars, convVars>>

\* a call on the processor the caller keeps; retFresh is what the same call
\* returns on a processor fresh from the factory, prevLonger tells whether the
\* buffer the earlier calls left was longer than the one this call works in
ConvolveScratchShared(s, k, m) ==
    /\ Len(k) <= Len(s)
    /\ LET r == convolve_scratchf64(s, k, m, proc, <<"ok", "ok">>)
           f == convolve_scratchf64(s, k, m, FreshProc, <<"ok", "ok">>)
       IN  /\ ret' = r.ret /\ backendLog' = r.log /\ proc' = r.proc
           /\ retFresh' = f.ret
           /\ prevLonger' = (Len(proc.scratch) > r.proc.plan)
    /\ a' = s /\ v' = k /\ mode' = m /\ op' = "convolve_scratchf64"
    /\ UNCHANGED axisVars

NextProc ==
    \/ GetFftProcessor
    \/ \E s \in ProcSignals, k \in ProcSignals, m \in ConvolveModes :
          ConvolveScratchShared(s, k, m)

SpecProc == Init /\ [][NextProc]_vars

(***************************************************************************)
(* Properties                                                              *)
(***************************************************************************)
Max(x, y) == IF x >= y THEN x ELSE y
Min(x, y) == IF x <= y THEN x ELSE y

\* the documented output length of each mode
OutLen(m, a_len, v_len) ==
    CASE m = "ConvolveMode::Full" -> a_len + v_len - 1
      [] m = "ConvolveMode::Same" -> Max(a_len, v_len)
      [] m = "ConvolveMode::Valid" -> Max(a_len, v_len) - Min(a_len, v_len) + 1

\* C1: a successful convolve(a, v, mode) with 1 <= v_len <= a_len returns a
\* sequence of length a_len + v_len - 1 (Full), max(a_len, v_len) (Same),
\* max - min + 1 (Valid), whatever the elements are.
C1_OutputLength ==
    (op = "convolve" /\ ret.tag = "Ok")
        => Len(ret.val) = OutLen(mode, Len(a), Len(v))

C1_Witness ==
    /\ op = "convolve" /\ ret.tag = "Ok" /\ mode = "ConvolveMode::Same"
    /\ Len(a) = 3 /\ Len(v) = 2 /\ Len(ret.val) = 3

\* F[k] = sum over i of s[i] * w[k - i], indices from 0, terms outside w dropped
FullAt(s, w, k) ==
    LET n == Len(s)
        S[i \in 0..n] ==
            IF i = 0 THEN 0
            ELSE S[i - 1] + (IF k - (i - 1) >= 0 /\ k - (i - 1) < Len(w)
                             THEN s[i] * w[k - (i - 1) + 1] ELSE 0)
    IN  S[n]

\* numpy.convolve(s, w, mode): the window <<first, last>> of F it returns
NumpyWindow(m, a_len, v_len) ==
    CASE m = "ConvolveMode::Full" -> <<0, a_len + v_len - 2>>
      [] m = "ConvolveMode::Same" -> <<(v_len - 1) \div 2, (v_len - 1) \div 2 + a_len - 1>>
      [] m = "ConvolveMode::Valid" -> <<v_len - 1, a_len - 1>>

NumpyConvolve(s, w, m) ==
    LET win == NumpyWindow(m, Len(s), Len(w))
    IN  [j \in 1..(win[2] - win[1] + 1) |-> FullAt(s, w, win[1] + j - 1)]

\* the documented results for signal [1,2,3], kernel [0,1,0.5], in units of 1/2
DocExpected(m) ==
    CASE m = "ConvolveMode::Full" -> <<0, 2, 5, 8, 3>>
      [] m = "ConvolveMode::Same" -> <<2, 5, 8>>
      [] m = "ConvolveMode::Valid" -> <<5>>

\* C2: a successful convolve(a, v, mode) returns numpy's window of the
\* zero-padded linear convolution F: all of F (Full), the a_len elements from
\* offset (v_len - 1) div 2 (Same), F[v_len - 1 .. a_len - 1] (Valid); kernel
\* [1] under Full returns the signal; the documented example gives the
\* documented results.
C2_NumpyWindow ==
    (op = "convolve" /\ ret.tag = "Ok")
        => /\ ret.val = NumpyConvolve(a, v, mode)
           /\ (v = <<1>> /\ mode = "ConvolveMode::Full") => ret.val = a
           /\ (a = DocA /\ v = DocV) => ret.val = DocExpected(mode)

C2_Witness ==
    /\ op = "convolve" /\ a = DocA /\ v = DocV /\ mode = "ConvolveMode::Same"
    /\ ret = OkSeq(<<2, 5, 8>>)

\* C4: whenever a resolver returns an index, 0 <= index < N.
C4_IndexInRange ==
    /\ retSt.tag = "Ok" => (0 <= retSt.val /\ retSt.val < rank)
    /\ retDyn.tag = "Ok" => (0 <= retDyn.val /\ retDyn.val < rank)

C4_Witness ==
    /\ axis.some /\ axis.v = -rank /\ rank = MaxRank
    /\ retSt = OkIdx(0) /\ retDyn = OkIdx(0)

\* the reference resolution of C5
MatchesReference(r, ax, N) ==
    IF ~ax.some THEN r.tag = "Ok" /\ r.val = N - 1
    ELSE IF 0 <= ax.v /\ ax.v < N THEN r.tag = "Ok" /\ r.val = ax.v
    ELSE IF -N <= ax.v /\ ax.v < 0 THEN r.tag = "Ok" /\ r.val = N + ax.v
    ELSE r.tag = "Err"

\* C5: for every rank N both resolvers compute the reference: absent -> N - 1,
\* 0 <= axis < N -> axis, -N <= axis < 0 -> N + axis, anything else an error.
C5_Reference ==
    /\ retSt.tag # "NotCalled" => MatchesReference(retSt, axis, rank)
    /\ retDyn.tag # "NotCalled" => MatchesReference(retDyn, axis, rank)

\* C6 as stated: the resolvers both return the same index, or both fail, the
\* static one with Err(()) and the dynamic one with InvalidArg{arg: "axis",
\* reason: "index out of range"}.
C6_AgreeAsStated ==
    (retSt.tag # "NotCalled" /\ retDyn.tag # "NotCalled")
        => \/ retSt.tag = "Ok" /\ retDyn.tag = "Ok" /\ retSt.val = retDyn.val
           \/ /\ retSt = ErrIdx(UnitError)
              /\ retDyn = ErrIdx([kind |-> "InvalidArg", arg |-> "axis",
                                  reason |-> "index out of range"])

\* C6 amended: the resolvers both return the same index, or both fail, the
\* static one with Err(()) and the dynamic one with InvalidArg{arg: "axis",
\* reason: "index out of range."} (the reason ends in a period), or, for an
\* absent spec at rank 0, both panic with the same message.
C6_Agree ==
    (retSt.tag # "NotCalled" /\ retDyn.tag # "NotCalled")
        => \/ retSt.tag = "Ok" /\ retDyn.tag = "Ok" /\ retSt.val = retDyn.val
           \/ /\ retSt = ErrIdx(UnitError)
              /\ retDyn = ErrIdx([kind |-> "InvalidArg", arg |-> "axis",
                                  reason |-> "index out of range."])
           \/ /\ ~axis.some /\ rank = 0
              /\ retSt.tag = "Panic" /\ retDyn = retSt

C6_Witness ==
    /\ axis.some /\ axis.v = -(rank + 1)
    /\ retSt.tag = "Err" /\ retDyn.tag = "Err"

\* C8: a call invokes the backend exactly once; it returns Err(Error::Conv)
\* exactly when that invocation failed, and otherwise the sequence the
\* backend returned, whole; it returns no other error kind.
C8_OnceAndWhole ==
    (op # "none")
        => /\ Len(backendLog) = 1
           /\ ret.tag \in {"Ok", "Err"}
           /\ (ret.tag = "Err") <=> ~backendLog[1].ok
           /\ (ret.tag = "Err") => ret.err.kind = "Conv"
           /\ backendLog[1].ok => ret = OkSeq(backendLog[1].val)

C8_Witness ==
    /\ op = "convolve_scratchf64" /\ ret.tag = "Err" /\ ret.err.kind = "Conv"
    /\ Len(backendLog) = 1 /\ ~backendLog[1].ok

\* C9: in both resolvers the checked addition after validation succeeds for
\* every rank (0 included) and every spec (absent included): no call panics.
C9_NoPanic ==
    /\ retSt.tag # "Panic"
    /\ retDyn.tag # "Panic"

====
